---- MODULE Spec2Model ----
(***************************************************************************)
(* Model of src/pipeline_dados/dev/scripts/fusao_mercados_fev.py: the four *)
(* stages load_dataframe, process_dataframe, union_dataframes and          *)
(* save_dataframe, and the dataframe-engine calls they make               *)
(* (df.columns, withColumnRenamed, withColumn, unionByName, df.write).     *)
(*                                                                         *)
(* A dataset is a record [present, cols, rows]: cols is the ordered list   *)
(* of column names, rows a sequence of rows, each row a sequence of cells  *)
(* aligned with cols.  A cell read from a file is <<k, c, r>> (dataset k,  *)
(* original column c, row r), so every source cell is distinguishable; a   *)
(* null cell is <<>>.  Python's None is the record with present = FALSE.   *)
(* The session is built at lines 17-22 with no configuration, so the       *)
(* engine resolves column names case-insensitively (its default), while    *)
(* Python's `in` on df.columns compares names exactly.  The engine version *)
(* is not pinned: some versions of withColumnRenamed refuse a rename that  *)
(* leaves two columns of one name, others return such a dataset, so the    *)
(* model takes either (`strict`).                                          *)
(***************************************************************************)
EXTENDS Naturals, Sequences, FiniteSets

VARIABLES d1, d2, u, disk, call, pc

vars == <<d1, d2, u, disk, call, pc>>

-----------------------------------------------------------------------------
(* Bounds *)

MaxCols == 2      \* columns of an input dataset
MaxArgs == 3      \* rename pairs plus required names of one process_dataframe call
NumRows == 1      \* rows of an input dataset

Names == {"a", "A", "b", "c"}

-----------------------------------------------------------------------------
(* Values *)

Null == <<>>

None == [present |-> FALSE, cols |-> <<>>, rows |-> <<>>]

\* str.lower() on the strings the model uses
Lower(s) ==
    CASE s = "A"       -> "a"
      [] s = "JSON"    -> "json"
      [] s = "CSV"     -> "csv"
      [] s = "Parquet" -> "parquet"
      [] OTHER         -> s

\* a dataset as read from a file: NumRows rows, every cell distinct
Source(k, cols) ==
    [present |-> TRUE,
     cols    |-> cols,
     rows    |-> [r \in 1..NumRows |-> [c \in 1..Len(cols) |-> <<k, c, r>>]]]

Range(s) == {s[i] : i \in 1..Len(s)}

\* sequences over S of length at most n
SeqsUpTo(S, n) == UNION {[1..k -> S] : k \in 0..n}

\* sequences with pairwise distinct elements
Distinct(s) == \A i, j \in 1..Len(s) : i # j => s[i] # s[j]

\* the values of column i of a dataset, row by row
ColumnValues(df, i) == [r \in 1..Len(df.rows) |-> df.rows[r][i]]

-----------------------------------------------------------------------------
(* Engine operations *)

\* df.columns
Columns(df) == df.cols

\* `name in df.columns`: Python list membership, exact string comparison
InColumns(name, df) == name \in Range(Columns(df))

\* the engine's resolver: case-insensitive name equality
Resolves(x, y) == Lower(x) = Lower(y)

\* two columns of one name, as the engine's duplicate check sees them
HasDuplicates(df) ==
    \E i, j \in 1..Len(df.cols) : i # j /\ Resolves(df.cols[i], df.cols[j])

\* df.withColumnRenamed(existing, new): every column the resolver matches to
\* `existing` is renamed; cells are untouched; no check for duplicates
withColumnRenamed(df, existing, new) ==
    [df EXCEPT !.cols = [i \in 1..Len(df.cols) |->
                            IF Resolves(df.cols[i], existing) THEN new
                            ELSE df.cols[i]]]

\* df.withColumn(name, lit(None).cast(StringType())): a column the resolver
\* matches to `name` is replaced (and takes the name as given); otherwise the
\* column is appended after the existing ones
withColumnNull(df, name) ==
    IF \E i \in 1..Len(df.cols) : Resolves(df.cols[i], name)
    THEN [df EXCEPT
            !.cols = [i \in 1..Len(df.cols) |->
                        IF Resolves(df.cols[i], name) THEN name ELSE df.cols[i]],
            !.rows = [r \in 1..Len(df.rows) |->
                        [i \in 1..Len(df.cols) |->
                            IF Resolves(df.cols[i], name) THEN Null
                            ELSE df.rows[r][i]]]]
    ELSE [df EXCEPT
            !.cols = Append(df.cols, name),
            !.rows = [r \in 1..Len(df.rows) |-> Append(df.rows[r], Null)]]

-----------------------------------------------------------------------------
(* process_dataframe *)

Renamed(old, new) == [msg |-> "renomeada", col |-> old, to |-> new]
Skipped(old)      == [msg |-> "pulando",   col |-> old, to |-> old]
Added(col)        == [msg |-> "adicionada", col |-> col, to |-> col]
Exists(col)       == [msg |-> "ja existe",  col |-> col, to |-> col]

\* a slip: the presence test made on the input dataset, not on processed_df
RenameTest_OnInput(old, processed_df, df) == InColumns(old, df)

\* the presence test of line 91
RenameTest(old, processed_df, df) == InColumns(old, processed_df)

\* a slip: each rename applied to the input dataset, dropping earlier renames
RenameStep_FromInput(st, p, df, strict) ==
    IF InColumns(p.old, st.df)
    THEN LET renamed == withColumnRenamed(df, p.old, p.new)
         IN  IF strict /\ HasDuplicates(renamed)
             THEN [st EXCEPT !.raised = TRUE]
             ELSE [df  |-> renamed,
                   log |-> Append(st.log, Renamed(p.old, p.new)),
                   raised |-> FALSE]
    ELSE [df  |-> st.df,
          log |-> Append(st.log, Skipped(p.old)),
          raised |-> FALSE]

\* one iteration of the rename loop, lines 90-95; st.raised tells that
\* withColumnRenamed raised (a strict engine, a duplicate name)
RenameStep(st, p, df, strict) ==
    IF RenameTest(p.old, st.df, df)
    THEN LET renamed == withColumnRenamed(st.df, p.old, p.new)
         IN  IF strict /\ HasDuplicates(renamed)
             THEN [st EXCEPT !.raised = TRUE]
             ELSE [df  |-> renamed,
                   log |-> Append(st.log, Renamed(p.old, p.new)),
                   raised |-> FALSE]
    ELSE [df  |-> st.df,
          log |-> Append(st.log, Skipped(p.old)),
          raised |-> FALSE]

\* the loop of lines 90-95; an exception ends it
RECURSIVE RenameLoop(_, _, _, _, _)
RenameLoop(st, mapping, i, df, strict) ==
    IF i > Len(mapping) \/ st.raised THEN st
    ELSE RenameLoop(RenameStep(st, mapping[i], df, strict), mapping, i + 1, df, strict)

\* a slip: the column names kept as they are, not lowercased
CurrentColumns_CaseSensitive(processed_df) == processed_df.cols

\* line 98
CurrentColumns(processed_df) ==
    [i \in 1..Len(processed_df.cols) |-> Lower(processed_df.cols[i])]

\* a slip: the test of line 100 inverted
IsMissing_Inverted(col, current_columns) == Lower(col) \in Range(current_columns)

\* the test of line 100
IsMissing(col, current_columns) == Lower(col) \notin Range(current_columns)

\* one iteration of the required-columns loop, lines 99-104
AppendStep(st, col, current_columns) ==
    IF IsMissing(col, current_columns)
    THEN [df  |-> withColumnNull(st.df, col),
          log |-> Append(st.log, Added(col)),
          raised |-> FALSE]
    ELSE [df  |-> st.df,
          log |-> Append(st.log, Exists(col)),
          raised |-> FALSE]

RECURSIVE AppendLoop(_, _, _, _)
AppendLoop(st, required, i, current_columns) ==
    IF i > Len(required) THEN st
    ELSE AppendLoop(AppendStep(st, required[i], current_columns),
                    required, i + 1, current_columns)

\* The outcome of a stage call: `raised` tells whether an exception left the
\* stage; ret is the dataset returned (None when nothing is returned),
\* ok the flag save_dataframe returns, mid the value of processed_df at
\* line 98, log the messages printed by the two loops, engine the engine
\* operations invoked.
Outcome(raised, ret, ok, mid, log, engine) ==
    [raised |-> raised, ret |-> ret, ok |-> ok, mid |-> mid,
     log |-> log, engine |-> engine]

\* process_dataframe(df, mapping, required_columns); engineOk tells whether
\* the engine evaluates printSchema/show/count without failing (lines
\* 107-110), strict whether withColumnRenamed refuses duplicate names.
\* Nothing here is inside a try: whatever raises leaves the function.
process_dataframe(df, mapping, required, engineOk, strict) ==
    IF ~df.present
    THEN \* None has no attribute `columns`: line 91 (or 98) raises
         Outcome(TRUE, None, FALSE, None, <<>>, <<>>)
    ELSE LET ren == RenameLoop([df |-> df, log |-> <<>>, raised |-> FALSE],
                               mapping, 1, df, strict)
             app == AppendLoop(ren, required, 1, CurrentColumns(ren.df))
         IN  IF ren.raised
             THEN Outcome(TRUE, None, FALSE, ren.df, ren.log, <<"withColumnRenamed">>)
             ELSE IF engineOk
             THEN Outcome(FALSE, app.df, FALSE, ren.df, app.log, <<"show", "count">>)
             ELSE Outcome(TRUE, None, FALSE, ren.df, app.log, <<"show">>)

-----------------------------------------------------------------------------
(* load_dataframe *)

\* load_dataframe(spark, path, file_type, options): `content` is what the
\* engine's reader yields for the path (None when the path cannot be read);
\* engineOk tells whether printSchema/show/count succeed (lines 62-65).
\* Everything from line 44 on is inside the try of line 43.
load_dataframe(file_type, content, engineOk) ==
    IF Lower(file_type) \notin {"json", "csv"}
    THEN Outcome(FALSE, None, FALSE, None, <<>>, <<>>)                 \* lines 56-58
    ELSE LET read == "read." \o Lower(file_type)
         IN  IF ~content.present
             THEN Outcome(FALSE, None, FALSE, None, <<>>, <<read>>)    \* lines 68-71
             ELSE IF ~engineOk
             THEN Outcome(FALSE, None, FALSE, None, <<>>, <<read, "show">>)
             ELSE Outcome(FALSE, content, FALSE, None, <<>>, <<read, "show", "count">>)

-----------------------------------------------------------------------------
(* union_dataframes *)

Indices(n) == [i \in 1..n |-> i]

\* the columns of df2 that no column of df1 resolves to, in df2's order
MissingInLeft(df1, df2) ==
    LET Unmatched(j) == \A i \in 1..Len(df1.cols) : ~Resolves(df1.cols[i], df2.cols[j])
    IN  SelectSeq(Indices(Len(df2.cols)), Unmatched)

\* the position in df of the column that resolves to `name` (0 when none)
Resolve(df, name) ==
    IF \E j \in 1..Len(df.cols) : Resolves(df.cols[j], name)
    THEN CHOOSE j \in 1..Len(df.cols) : Resolves(df.cols[j], name)
    ELSE 0

\* a slip: df1.union(df2), which aligns the columns by position
unionByName_ByPosition(df1, df2) ==
    IF Len(df1.cols) = Len(df2.cols)
    THEN [present |-> TRUE, cols |-> df1.cols, rows |-> df1.rows \o df2.rows]
    ELSE None

\* df1.unionByName(df2, allowMissingColumns=True) on sides without duplicate
\* names: df1's columns, then the columns only df2 has; df1's rows, then
\* df2's rows; a cell with no source is null
unionByName(df1, df2) ==
    LET extra == MissingInLeft(df1, df2)
        n1    == Len(df1.cols)
        cols  == df1.cols \o [k \in 1..Len(extra) |-> df2.cols[extra[k]]]
        left  == [r \in 1..Len(df1.rows) |->
                    df1.rows[r] \o [k \in 1..Len(extra) |-> Null]]
        right == [r \in 1..Len(df2.rows) |->
                    [i \in 1..n1 |->
                        IF Resolve(df2, df1.cols[i]) = 0 THEN Null
                        ELSE df2.rows[r][Resolve(df2, df1.cols[i])]]
                    \o [k \in 1..Len(extra) |-> df2.rows[r][extra[k]]]]
    IN  [present |-> TRUE, cols |-> cols, rows |-> left \o right]

\* a slip: `and` in place of `or` in the guard
AnyAbsent_Both(df1, df2) == ~df1.present /\ ~df2.present

\* the guard of line 128
AnyAbsent(df1, df2) == ~df1.present \/ ~df2.present

\* union_dataframes(df1, df2); engineOk tells whether the shared columns have
\* compatible types and printSchema/show/count succeed.  Lines 140-149 are
\* inside the try of line 133: every failure there returns None (151-154).
union_dataframes(df1, df2, engineOk) ==
    IF AnyAbsent(df1, df2)
    THEN Outcome(FALSE, None, FALSE, None, <<>>, <<>>)                   \* lines 128-130
    ELSE IF ~df1.present
    THEN Outcome(FALSE, None, FALSE, None, <<>>, <<>>)                   \* None.unionByName
    ELSE IF ~df2.present \/ HasDuplicates(df1) \/ HasDuplicates(df2) \/ ~engineOk
    THEN Outcome(FALSE, None, FALSE, None, <<>>, <<"unionByName">>)
    ELSE Outcome(FALSE, unionByName(df1, df2), FALSE, None, <<>>,
                 <<"unionByName", "show", "count">>)

-----------------------------------------------------------------------------
(* save_dataframe *)

\* what is stored at output_path: nothing, or a dataset in a format
NoData == [written |-> FALSE, format |-> "", data |-> None]

\* a slip: mode("append")
WriteAppend(before, df, format) ==
    [written |-> TRUE, format |-> format,
     data |-> IF before.written
              THEN [df EXCEPT !.rows = before.data.rows \o df.rows]
              ELSE df]

\* df.write.mode("overwrite").<format>(output_path), completed: line 177 and
\* lines 184/186/188
WriteOverwrite(before, df, format) ==
    [written |-> TRUE, format |-> format, data |-> df]

\* a slip: no return in the else branch, so lines 193-194 run
Unsupported_FallsThrough(before) ==
    [disk |-> before, out |-> Outcome(FALSE, None, TRUE, None, <<>>, <<>>)]

\* lines 189-191
Unsupported(before) ==
    [disk |-> before, out |-> Outcome(FALSE, None, FALSE, None, <<>>, <<>>)]

\* save_dataframe(df, output_path, file_format, options): `before` is what
\* output_path holds; writeOk tells whether the engine's write completes;
\* a failed overwrite leaves the old data or nothing (`kept`).  The result is
\* the new content of output_path and the outcome (ok is the flag returned).
save_dataframe(df, before, file_format, writeOk, kept) ==
    IF ~df.present
    THEN [disk |-> before, out |-> Outcome(FALSE, None, FALSE, None, <<>>, <<>>)]  \* 171-173
    ELSE IF Lower(file_format) \in {"csv", "parquet", "json"}
    THEN LET write == "write." \o Lower(file_format)
         IN  IF writeOk
             THEN [disk |-> WriteOverwrite(before, df, Lower(file_format)),
                   out  |-> Outcome(FALSE, None, TRUE, None, <<>>, <<write>>)]
             ELSE [disk |-> IF kept THEN before ELSE NoData,                       \* 196-199
                   out  |-> Outcome(FALSE, None, FALSE, None, <<>>, <<write>>)]
    ELSE Unsupported(before)

-----------------------------------------------------------------------------
(* Inputs *)

ColumnLists == {s \in SeqsUpTo(Names, MaxCols) : Distinct(s)}

Pairs == [old : Names, new : Names]

\* a dict: keys (old names) pairwise distinct, in insertion order
Mappings ==
    {m \in SeqsUpTo(Pairs, MaxArgs) :
        \A i, j \in 1..Len(m) : i # j => m[i].old # m[j].old}

\* the required-columns lists that fit next to a mapping
RequiredLists(mapping) == SeqsUpTo(Names, MaxArgs - Len(mapping))

FileTypes == {"json", "JSON", "csv", "CSV", "parquet", "xml"}

Formats == {"csv", "CSV", "parquet", "Parquet", "json", "JSON", "xml", "orc"}

NoCall ==
    [fn |-> "none", df |-> None, df2 |-> None, mapping |-> <<>>,
     required |-> <<>>, fmt |-> "", engineOk |-> TRUE, before |-> NoData,
     out |-> Outcome(FALSE, None, FALSE, None, <<>>, <<>>)]

-----------------------------------------------------------------------------
(* process_dataframe on its own: any dataset, mapping, required list, with  *)
(* the engine evaluating the result (a failing engine is explored in Spec)  *)

InitProcess ==
    /\ d1 \in {Source(1, cols) : cols \in ColumnLists} \cup {None}
    /\ d2 = None
    /\ u = None
    /\ disk = NoData
    /\ call = NoCall
    /\ pc = "process"

CallProcess ==
    /\ pc = "process"
    /\ \E mapping \in Mappings, strict \in BOOLEAN :
          \E required \in RequiredLists(mapping) :
             call' = [NoCall EXCEPT !.fn = "process_dataframe", !.df = d1,
                                    !.mapping = mapping, !.required = required,
                                    !.out = process_dataframe(d1, mapping, required,
                                                              TRUE, strict)]
    /\ pc' = "done"
    /\ UNCHANGED <<d1, d2, u, disk>>

NextProcess == CallProcess

SpecProcess == InitProcess /\ [][NextProcess]_vars

-----------------------------------------------------------------------------
(* union_dataframes on its own: any two datasets, absent ones and ones with *)
(* repeated column names (as process_dataframe can return) included         *)

UnionInputs(k) == {Source(k, cols) : cols \in SeqsUpTo(Names, MaxCols)} \cup {None}

InitUnion ==
    /\ d1 \in UnionInputs(1)
    /\ d2 \in UnionInputs(2)
    /\ u = None
    /\ disk = NoData
    /\ call = NoCall
    /\ pc = "union"

CallUnion ==
    /\ pc = "union"
    /\ \E engineOk \in BOOLEAN :
          LET out == union_dataframes(d1, d2, engineOk)
          IN  /\ call' = [NoCall EXCEPT !.fn = "union_dataframes", !.df = d1, !.df2 = d2,
                                        !.engineOk = engineOk, !.out = out]
              /\ u' = out.ret
    /\ pc' = "done"
    /\ UNCHANGED <<d1, d2, disk>>

NextUnion == CallUnion

SpecUnion == InitUnion /\ [][NextUnion]_vars

-----------------------------------------------------------------------------
(* save_dataframe called again and again on one output_path *)

MaxSaved == 2     \* different datasets saved

SaveInputs == {Source(k, <<"a", "b">>) : k \in 1..MaxSaved} \cup {None}

InitSave ==
    /\ d1 = None
    /\ d2 = None
    /\ u = None
    /\ disk = NoData
    /\ call = NoCall
    /\ pc = "save"

CallSave ==
    /\ pc = "save"
    /\ \E df \in SaveInputs, fmt \in Formats, writeOk \in BOOLEAN, kept \in BOOLEAN :
          LET res == save_dataframe(df, disk, fmt, writeOk, kept)
          IN  /\ call' = [NoCall EXCEPT !.fn = "save_dataframe", !.df = df, !.fmt = fmt,
                                        !.engineOk = writeOk, !.before = disk,
                                        !.out = res.out]
              /\ disk' = res.disk
    /\ UNCHANGED <<d1, d2, u, pc>>

NextSave == CallSave

SpecSave == InitSave /\ [][NextSave]_vars

-----------------------------------------------------------------------------
(* The pipeline: load both files, harmonize both, union, save *)

PipeFiles(k) == {Source(k, <<"a", "b">>), Source(k, <<"A", "c">>), None}

PipeMappings ==
    {<<>>, <<[old |-> "A", new |-> "a"]>>, <<[old |-> "a", new |-> "b"]>>}

PipeRequired == {<<>>, <<"a", "b", "c">>}

Held(i) == IF i = 1 THEN d1 ELSE d2

Init ==
    /\ d1 = None
    /\ d2 = None
    /\ u = None
    /\ disk = NoData
    /\ call = NoCall
    /\ pc = "load1"

Load(i) ==
    /\ pc = IF i = 1 THEN "load1" ELSE "load2"
    /\ \E file_type \in FileTypes, content \in PipeFiles(i), engineOk \in BOOLEAN :
          LET out == load_dataframe(file_type, content, engineOk)
          IN  /\ call' = [NoCall EXCEPT !.fn = "load_dataframe", !.fmt = file_type,
                                        !.df = content, !.engineOk = engineOk, !.out = out]
              /\ d1' = IF i = 1 THEN out.ret ELSE d1
              /\ d2' = IF i = 2 THEN out.ret ELSE d2
    /\ pc' = IF i = 1 THEN "load2" ELSE "process1"
    /\ UNCHANGED <<u, disk>>

\* an exception that leaves process_dataframe ends the run
Process(i) ==
    /\ pc = IF i = 1 THEN "process1" ELSE "process2"
    /\ \E mapping \in PipeMappings, required \in PipeRequired,
          engineOk \in BOOLEAN, strict \in BOOLEAN :
          LET out == process_dataframe(Held(i), mapping, required, engineOk, strict)
          IN  /\ call' = [NoCall EXCEPT !.fn = "process_dataframe", !.df = Held(i),
                                        !.mapping = mapping, !.required = required,
                                        !.engineOk = engineOk, !.out = out]
              /\ d1' = IF i = 1 /\ ~out.raised THEN out.ret ELSE d1
              /\ d2' = IF i = 2 /\ ~out.raised THEN out.ret ELSE d2
              /\ pc' = IF out.raised THEN "crashed"
                       ELSE IF i = 1 THEN "process2" ELSE "union"
    /\ UNCHANGED <<u, disk>>

Union ==
    /\ pc = "union"
    /\ \E engineOk \in BOOLEAN :
          LET out == union_dataframes(d1, d2, engineOk)
          IN  /\ call' = [NoCall EXCEPT !.fn = "union_dataframes", !.df = d1, !.df2 = d2,
                                        !.engineOk = engineOk, !.out = out]
              /\ u' = out.ret
    /\ pc' = "save"
    /\ UNCHANGED <<d1, d2, disk>>

Save ==
    /\ pc = "save"
    /\ \E fmt \in Formats, writeOk \in BOOLEAN, kept \in BOOLEAN :
          LET res == save_dataframe(u, disk, fmt, writeOk, kept)
          IN  /\ call' = [NoCall EXCEPT !.fn = "save_dataframe", !.df = u, !.fmt = fmt,
                                        !.engineOk = writeOk, !.before = disk,
                                        !.out = res.out]
              /\ disk' = res.disk
    /\ pc' = "done"
    /\ UNCHANGED <<d1, d2, u>>

Next ==
    \/ \E i \in 1..2 : Load(i)
    \/ \E i \in 1..2 : Process(i)
    \/ Union
    \/ Save

Spec == Init /\ [][Next]_vars

-----------------------------------------------------------------------------
(* Claims about process_dataframe *)

\* process_dataframe was called and returned a dataset
Returned == call.fn = "process_dataframe" /\ ~call.out.raised

Mid == call.out.mid
Out == call.out.ret

\* the position of a column of the input dataset (its names are distinct)
IndexOf(df, name) == CHOOSE k \in 1..Len(df.cols) : df.cols[k] = name

\* some column of df named `name` holds exactly the cells `values`
Carries(df, name, values) ==
    \E j \in 1..Len(df.cols) : df.cols[j] = name /\ ColumnValues(df, j) = values

\* the old key of pair i was a column of the input, is no column of the
\* output, and the new name is a column of the output with the input's cells
RenamedAway(i) ==
    LET p == call.mapping[i] IN
    InColumns(p.old, call.df) =>
        /\ ~InColumns(p.old, Out)
        /\ Carries(Out, p.new, ColumnValues(call.df, IndexOf(call.df, p.old)))

C1_Separate ==
    /\ \A i, j \in 1..Len(call.mapping) :
          ~Resolves(call.mapping[i].new, call.mapping[j].old)
    /\ \A i, j \in 1..Len(call.mapping) :
          i # j => ~Resolves(call.mapping[i].old, call.mapping[j].old)
    /\ \A i \in 1..Len(call.mapping), k \in 1..Len(call.required) :
          ~Resolves(call.required[k], call.mapping[i].old)

C2_RequiredPresent ==
    Returned =>
        \A k \in 1..Len(call.required) :
            \E j \in 1..Len(Out.cols) : Lower(Out.cols[j]) = Lower(call.required[k])

\* a required name missing after the renames is listed under two casings, so
\* the second test is made against the stale lowercase list
C2_Witness ==
    /\ Returned
    /\ call.required = <<"a", "A">>
    /\ \A j \in 1..Len(Mid.cols) : Lower(Mid.cols[j]) # "a"
    /\ Len(call.mapping) > 0

\* the entries of the required-columns list missing, ignoring case, from the
\* columns left by the renames
MissingEntries ==
    {k \in 1..Len(call.required) :
        \A j \in 1..Len(Mid.cols) : ~Resolves(Mid.cols[j], call.required[k])}

\* the columns appended after those left by the renames
Appended == (Len(Mid.cols) + 1)..Len(Out.cols)

\* rows and the columns left by the renames are as they were
C8_Frame ==
    /\ Len(Out.rows) = Len(Mid.rows)
    /\ Len(Out.cols) >= Len(Mid.cols)
    /\ \A j \in 1..Len(Mid.cols) :
          /\ Out.cols[j] = Mid.cols[j]
          /\ ColumnValues(Out, j) = ColumnValues(Mid, j)

\* C8 as stated: every missing entry of the list has exactly one appended
\* column named exactly as written, null in every row; rows and existing
\* columns are unchanged; the column count grows by the number of missing
\* required columns (here counted once per name ignoring case, the reading
\* most favourable to the claim), also when one name is listed twice or
\* under two casings.
C8_AsStated ==
    Returned =>
        /\ C8_Frame
        /\ \A k \in MissingEntries :
              /\ Cardinality({j \in Appended : Out.cols[j] = call.required[k]}) = 1
              /\ \A j \in Appended :
                    Out.cols[j] = call.required[k] =>
                        \A r \in 1..Len(Out.rows) : Out.rows[r][j] = Null
        /\ Len(Out.cols) =
              Len(Mid.cols) + Cardinality({Lower(call.required[k]) : k \in MissingEntries})

\* the last entry of the list that equals entry k ignoring case
LastCasing(k) ==
    CHOOSE m \in 1..Len(call.required) :
        /\ Resolves(call.required[m], call.required[k])
        /\ \A n \in 1..Len(call.required) :
              Resolves(call.required[n], call.required[k]) => n <= m

\* C8 amended: every missing required name has, ignoring case, exactly one
\* appended column, null in every row and named as the last entry of the list
\* that equals it ignoring case; rows and existing columns are unchanged; the
\* column count grows by the number of missing names that differ ignoring case.
C8_OnePerName ==
    Returned =>
        /\ C8_Frame
        /\ \A k \in MissingEntries :
              /\ Cardinality({j \in Appended : Resolves(Out.cols[j], call.required[k])}) = 1
              /\ \A j \in Appended :
                    Resolves(Out.cols[j], call.required[k]) =>
                        /\ Out.cols[j] = call.required[LastCasing(k)]
                        /\ \A r \in 1..Len(Out.rows) : Out.rows[r][j] = Null
        /\ Len(Out.cols) =
              Len(Mid.cols) + Cardinality({Lower(call.required[k]) : k \in MissingEntries})

\* a missing name listed under two casings next to an existing column
C8_Witness ==
    /\ Returned
    /\ Cardinality(MissingEntries) = 2
    /\ Resolves(call.required[1], call.required[2])
    /\ call.required[1] # call.required[2]
    /\ Len(Mid.cols) > 0
    /\ Len(Out.cols) = Len(Mid.cols) + 1

\* C9: a dataset with pairwise distinct column names is returned with
\* pairwise distinct column names.
C9_UniqueNames ==
    (Returned /\ Distinct(call.df.cols)) => Distinct(Out.cols)

\* the column names after the first k pairs, each pair tested against and
\* applied to the names left by the pairs before it
RECURSIVE NamesAfter(_, _, _)
NamesAfter(cols, mapping, k) ==
    IF k = 0 THEN cols
    ELSE LET prev == NamesAfter(cols, mapping, k - 1)
         IN  IF mapping[k].old \in Range(prev)
             THEN [i \in 1..Len(prev) |->
                      IF Lower(prev[i]) = Lower(mapping[k].old)
                      THEN mapping[k].new ELSE prev[i]]
             ELSE prev

\* C10: the pairs are applied one after another in mapping order, each tested
\* against the columns left by the earlier ones: every pair gets its turn and
\* is reported renamed exactly when its old name is a column at that turn, a
\* skipped pair changes nothing, and [a->b, b->c] on column a leaves column c.
C10_Sequential ==
    Returned =>
        /\ Len(call.out.log) = Len(call.mapping) + Len(call.required)
        /\ \A i \in 1..Len(call.mapping) :
              LET before == NamesAfter(call.df.cols, call.mapping, i - 1)
                  after  == NamesAfter(call.df.cols, call.mapping, i)
              IN  /\ call.out.log[i].col = call.mapping[i].old
                  /\ (call.out.log[i].msg = "renomeada") = (call.mapping[i].old \in Range(before))
                  /\ (call.out.log[i].msg = "pulando") = (call.mapping[i].old \notin Range(before))
                  /\ call.out.log[i].msg = "pulando" => after = before
        /\ Mid.cols = NamesAfter(call.df.cols, call.mapping, Len(call.mapping))
        /\ Mid.rows = call.df.rows
        /\ (/\ call.mapping = <<[old |-> "a", new |-> "b"], [old |-> "b", new |-> "c"]>>
            /\ call.df.cols = <<"a">>) => Mid.cols = <<"c">>

\* the chain [a->b, b->c] applied to a dataset whose only column is a
C10_Witness ==
    /\ Returned
    /\ call.mapping = <<[old |-> "a", new |-> "b"], [old |-> "b", new |-> "c"]>>
    /\ call.df.cols = <<"a">>
    /\ Mid.cols = <<"c">>
    /\ call.out.log[1].msg = "renomeada"
    /\ call.out.log[2].msg = "renomeada"

-----------------------------------------------------------------------------
(* Claims about the stages as failure boundaries *)

\* C3: no exception leaves a stage, whatever its input: a stage returns a
\* dataset or its sentinel, also for an absent dataset handed over by a
\* failed upstream stage and for a failing engine call.
C3_NoEscape == ~call.out.raised

-----------------------------------------------------------------------------
(* Claims about union_dataframes *)

UnionCalled == call.fn = "union_dataframes"

\* both inputs present, each with column names pairwise distinct (also
\* ignoring case), types compatible and the engine evaluating the result
C4_Inputs ==
    /\ UnionCalled
    /\ call.df.present /\ call.df2.present
    /\ ~HasDuplicates(call.df) /\ ~HasDuplicates(call.df2)
    /\ call.engineOk

\* row r of the result is null in the columns named by no column of `other`
NullWhereOnly(r, other) ==
    \A j \in 1..Len(u.cols) :
        u.cols[j] \notin Range(other.cols) => u.rows[r][j] = Null

\* C4 as stated: the result's column set is exactly columns(A) \cup
\* columns(B), it has rows(A) + rows(B) rows, every row from A is null in
\* the columns only B has and every row from B in the columns only A has.
C4_AsStated ==
    C4_Inputs =>
        /\ u.present
        /\ Range(u.cols) = Range(call.df.cols) \cup Range(call.df2.cols)
        /\ Len(u.rows) = Len(call.df.rows) + Len(call.df2.rows)
        /\ \A r \in 1..Len(call.df.rows) : NullWhereOnly(r, call.df)
        /\ \A r \in 1..Len(call.df2.rows) : NullWhereOnly(Len(call.df.rows) + r, call.df2)

\* C4 amended: for two present datasets whose column names are each pairwise
\* distinct ignoring case, the result's columns are A's columns followed by
\* the columns of B that equal no column of A ignoring case; it has
\* rows(A) + rows(B) rows; a row from A keeps its cells and is null in the
\* columns only B has; a row from B has, in each column, the cell of B's
\* column of that name ignoring case, and null where B has no such column.
\* A side with two columns equal ignoring case makes the result absent.
C4_ByName ==
    /\ (/\ UnionCalled
        /\ call.df.present /\ call.df2.present
        /\ HasDuplicates(call.df) \/ HasDuplicates(call.df2)) => u = None
    /\ C4_Inputs =>
        LET A  == call.df
            B  == call.df2
            nA == Len(A.cols)
            rA == Len(A.rows)
        IN  /\ u.present
            /\ ~HasDuplicates(u)
            /\ SubSeq(u.cols, 1, nA) = A.cols
            /\ {Lower(u.cols[j]) : j \in 1..Len(u.cols)} =
                  {Lower(A.cols[j]) : j \in 1..nA} \cup {Lower(B.cols[j]) : j \in 1..Len(B.cols)}
            /\ \A j \in (nA + 1)..Len(u.cols) : u.cols[j] \in Range(B.cols)
            /\ Len(u.rows) = rA + Len(B.rows)
            /\ \A r \in 1..rA :
                  /\ \A j \in 1..nA : u.rows[r][j] = A.rows[r][j]
                  /\ \A j \in (nA + 1)..Len(u.cols) : u.rows[r][j] = Null
            /\ \A r \in 1..Len(B.rows), j \in 1..Len(u.cols) :
                  /\ \A k \in 1..Len(B.cols) :
                        Resolves(B.cols[k], u.cols[j]) => u.rows[rA + r][j] = B.rows[r][k]
                  /\ (\A k \in 1..Len(B.cols) : ~Resolves(B.cols[k], u.cols[j]))
                        => u.rows[rA + r][j] = Null

\* A has columns a, b and B has columns A, c: the result has a, b, c and the
\* row from B carries its A cell under a
C4_Witness ==
    /\ C4_Inputs
    /\ call.df.cols = <<"a", "b">>
    /\ call.df2.cols = <<"A", "c">>
    /\ u.present
    /\ u.cols = <<"a", "b", "c">>
    /\ Len(u.rows) = 2 * NumRows
    /\ u.rows[NumRows + 1] = <<call.df2.rows[1][1], Null, call.df2.rows[1][2]>>

\* C5: when df1 or df2 is absent, union_dataframes returns absent, raises
\* nothing and invokes no engine operation.
C5_AbsentInput ==
    (UnionCalled /\ (~call.df.present \/ ~call.df2.present)) =>
        /\ call.out.ret = None
        /\ u = None
        /\ ~call.out.raised
        /\ call.out.engine = <<>>

\* df1 is a dataset with columns and df2 is absent
C5_Witness ==
    /\ UnionCalled
    /\ call.df.present /\ Len(call.df.cols) > 0
    /\ ~call.df2.present
    /\ call.out.ret = None

-----------------------------------------------------------------------------
(* Claims about save_dataframe *)

SaveCalled == call.fn = "save_dataframe"

Supported(fmt) == Lower(fmt) \in {"csv", "parquet", "json"}

\* C6: with an absent dataset or a format tag that is, ignoring case, none of
\* csv, parquet, json, save_dataframe returns False, makes no engine write
\* call and leaves output_path as it was; it returns True only after the
\* engine write call for the matching format completed.
C6_NoWrite ==
    SaveCalled =>
        /\ (~call.df.present \/ ~Supported(call.fmt)) =>
              /\ ~call.out.ok
              /\ call.out.engine = <<>>
              /\ disk = call.before
        /\ call.out.ok =>
              /\ call.df.present
              /\ Supported(call.fmt)
              /\ call.engineOk
              /\ call.out.engine = <<"write." \o Lower(call.fmt)>>
        /\ ~call.out.raised

\* a present dataset, an unsupported tag, and data left by an earlier save
C6_Witness ==
    /\ SaveCalled
    /\ call.df.present
    /\ ~Supported(call.fmt)
    /\ call.before.written
    /\ disk = call.before
    /\ ~call.out.ok

\* C7: when the last save_dataframe call returned True, output_path holds
\* exactly the dataset of that call, whatever earlier saves left there.
C7_LastSaveWins ==
    (SaveCalled /\ call.out.ok) =>
        /\ disk.written
        /\ disk.data = call.df
        /\ disk.format = Lower(call.fmt)

\* a successful save over the different dataset an earlier save left
C7_Witness ==
    /\ SaveCalled
    /\ call.out.ok
    /\ call.before.written
    /\ call.before.data # call.df
    /\ disk.data = call.df

====
